---- MODULE Spec2Model ----
(***************************************************************************)
(* Model of the move algebra and the circular path trimmer of gear_gen:    *)
(* src/src/lib/lib.rs (PosAndFeed, g0, g1, g_move_linear, trimmed_g1_path)  *)
(* and src/src/lib/geometry/mod.rs (LineSegment, Circle, TrimResult, trim). *)
(*                                                                         *)
(* Numbers.  The program computes in f64.  The inputs of the model are     *)
(* small integers, for which the products and sums of trim are exact in    *)
(* f64; the only inexact operation is the square root of the discriminant. *)
(* A value is therefore kept exactly, as an element (p + q*sqrt(d)) / n of *)
(* a quadratic field, and every comparison of the code is decided exactly  *)
(* by integer arithmetic (Sgn).  For the inputs used here a root of the    *)
(* quadratic is either exactly 0 or 1 or further from them than any f64    *)
(* rounding error, so the branches taken are the ones the program takes.   *)
(***************************************************************************)
EXTENDS Integers, Sequences, FiniteSets, TLC

VARIABLES
    file,         \* the sink: the tokens written so far by the current call
    pc,           \* "idle" | "loop" | "done" | "panic"
    cutter_down,  \* trimmed_g1_path's local `cutter_down`
    i,            \* trimmed_g1_path's loop index
    path,         \* argument `path`: a sequence of PosAndFeed
    z_safe,       \* argument `z_safe`
    z_cut,        \* argument `z_cut`
    feed,         \* argument `feed`
    circle,       \* argument `circle`: a PosRadiusAndFeed
    desc,         \* a direct call of g0 or g1: the command and its PosAndFeed
    first,        \* the arguments and the output of the first walk of a run that
                  \* has completed and been followed by another call
    num,          \* a direct call of g_val: the f64 it is given
    text,         \* the characters that call of g_val wrote for `num`
    tline,        \* a direct call of trim: the LineSegment it is given
    result,       \* the TrimResult that call of trim returned
    total_depth,  \* cut_tooth's `total_depth`
    max_depth,    \* cut_tooth's `opt.max_depth`
    depth,        \* cut_tooth's `depth`
    remaining,    \* cut_tooth's `remaining`, as the last iteration computed it
    last_pass     \* the depth of the last call of pass_at_depth (0: none yet)

\* The variables of the direct calls of g_val and of trim.
direct == <<num, text, tline, result>>

\* The variables of cut_tooth.
gear == <<total_depth, max_depth, depth, remaining, last_pass>>

vars == <<file, pc, cutter_down, i, path, z_safe, z_cut, feed, circle, desc, first,
          num, text, tline, result, total_depth, max_depth, depth, remaining, last_pass>>

-----------------------------------------------------------------------------
(* Values: (p + q*sqrt(d)) / n with n > 0; n = 0 encodes Option::None.       *)

None == [p |-> 0, q |-> 0, d |-> 0, n |-> 0]

Num(v) == [p |-> v, q |-> 0, d |-> 0, n |-> 1]

IsSome(v) == v.n # 0

SignOf(k) == IF k > 0 THEN 1 ELSE IF k < 0 THEN -1 ELSE 0

\* The sign of u + v*sqrt(d), for integers u, v and d >= 0.
Sgn(u, v, d) ==
    IF v = 0 \/ d = 0 THEN SignOf(u)
    ELSE IF u = 0 THEN SignOf(v)
    ELSE IF SignOf(u) = SignOf(v) THEN SignOf(u)
    ELSE IF u * u > v * v * d THEN SignOf(u)
    ELSE IF u * u < v * v * d THEN SignOf(v)
    ELSE 0

\* The sign of the value s.
SgnVal(s) == Sgn(s.p, s.q, s.d)

\* The sign of s - k for an integer k.
SgnMinus(s, k) == Sgn(s.p - k * s.n, s.q, s.d)

RECURSIVE Gcd(_, _)
Gcd(m, k) == IF k = 0 THEN m ELSE Gcd(k, m % k)

Abs(k) == IF k < 0 THEN -k ELSE k

RECURSIVE ISqrtFrom(_, _)
ISqrtFrom(k, r) == IF (r + 1) * (r + 1) > k THEN r ELSE ISqrtFrom(k, r + 1)

\* The integer square root of k >= 0.
ISqrt(k) == ISqrtFrom(k, 0)

RECURSIVE SquarePartFrom(_, _)
SquarePartFrom(k, r) ==
    IF r <= 1 THEN 1 ELSE IF k % (r * r) = 0 THEN r ELSE SquarePartFrom(k, r - 1)

\* The largest r with r*r dividing k, for k >= 1.
SquarePart(k) == SquarePartFrom(k, ISqrt(k))

\* The canonical form of (p + q*sqrt(d)) / n: the radicand square-free (0 for
\* a rational), the fraction in lowest terms.  Two values are equal exactly
\* when their canonical forms are.
Norm(p, q, d, n) ==
    LET r  == IF q = 0 \/ d = 0 THEN 1 ELSE SquarePart(d)
        dd == IF q = 0 \/ d = 0 THEN 0 ELSE d \div (r * r)
        pp == IF dd = 1 THEN p + q * r ELSE p
        qq == IF dd <= 1 THEN 0 ELSE q * r
        g  == Gcd(Gcd(Abs(pp), Abs(qq)), n)
    IN  [p |-> pp \div g, q |-> qq \div g, d |-> IF dd <= 1 THEN 0 ELSE dd, n |-> n \div g]

\* start + t * dir for an integer start and dir and a value t.
Along(start, t, dir) == Norm(start * t.n + t.p * dir, t.q * dir, t.d, t.n)

-----------------------------------------------------------------------------
(* PosAndFeed and its builders (lib.rs 85-232).                              *)

PosAndFeed(vx, vy, vz, va, vf) == [x |-> vx, y |-> vy, z |-> vz, a |-> va, feed |-> vf]

xy(vx, vy) == PosAndFeed(vx, vy, None, None, None)

xyz(vx, vy, vz) == PosAndFeed(vx, vy, vz, None, None)

xyf(vx, vy, vf) == PosAndFeed(vx, vy, None, None, vf)

z(vz) == PosAndFeed(None, None, vz, None, None)

zf(vz, vf) == PosAndFeed(None, None, vz, None, vf)

\* PosRadiusAndFeed and its builders (lib.rs 327-353).
xyr(vx, vy, vr) == [x |-> vx, y |-> vy, r |-> vr, feed |-> None, z |-> None]

xyrf(vx, vy, vr, vf) == [x |-> vx, y |-> vy, r |-> vr, feed |-> vf, z |-> None]

-----------------------------------------------------------------------------
(* The sink and the emission of one move (lib.rs 234-280).                   *)
(* A token is a command word, one letter with its value, or the newline.      *)

Tok(t, v) == [t |-> t, v |-> v]

NL == Tok("NL", None)

\* g_val: nothing for None, else one token of the letter and the value.
g_val(f, name, ov) == IF IsSome(ov) THEN Append(f, Tok(name, ov)) ELSE f

\* The text g_val writes for a value (lib.rs 252-256).  An f64 v is kept here
\* as w + m / 2^e for integers w, m and e >= 0 with |m / 2^e| <= 1/2, so that
\* values closer to an integer than f64::EPSILON can be told from integers.
\* A text is a sign, the digits before the point as a number, the point, and
\* the sequence of the digits after it.
F64(w, m, e) == [w |-> w, m |-> m, e |-> e]

RECURSIVE Pow2(_)
Pow2(k) == IF k = 0 THEN 1 ELSE 2 * Pow2(k - 1)

\* f64::EPSILON is 2^-52.
EpsilonBits == 52

\* The fraction m / 2^e of v is stored with an exponent beyond the width of
\* the integers here: its numerator is small and the fraction is tiny.
TinyFraction(v) == v.e >= EpsilonBits

\* The sign of v.
SgnF64(v) == IF v.w # 0 THEN SignOf(v.w) ELSE SignOf(v.m)

\* |m / 2^e| is exactly 1/2.
IsHalf(v) == ~TinyFraction(v) /\ 2 * Abs(v.m) = Pow2(v.e)

\* v.round(): the nearest integer, a tie going away from zero.
round(v) ==
    IF IsHalf(v) /\ v.m > 0 /\ SgnF64(v) > 0 THEN v.w + 1
    ELSE IF IsHalf(v) /\ v.m < 0 /\ SgnF64(v) < 0 THEN v.w - 1
    ELSE v.w

\* (v - v.round()).abs(), as the numerator over 2^e.
AbsDiff(v) == IF round(v) = v.w THEN Abs(v.m) ELSE Pow2(v.e) - Abs(v.m)

\* A g_val that also takes a difference of exactly EPSILON for an integer.
UpToEpsilon(v) ==
    \/ AbsDiff(v) = 0
    \/ v.e >= EpsilonBits /\ AbsDiff(v) <= Pow2(v.e - EpsilonBits)

\* (v - v.round()).abs() < f64::EPSILON
WithinEpsilon(v) ==
    \/ AbsDiff(v) = 0
    \/ v.e > EpsilonBits /\ AbsDiff(v) < Pow2(v.e - EpsilonBits)

Text(neg, int, frac) == [neg |-> neg, int |-> int, point |-> TRUE, frac |-> frac]

\* "{}." of v.round(): the integer and the point.
FmtRounded(v) == Text(SgnF64(v) < 0, Abs(round(v)), <<>>)

\* |v| as whole + f / 2^e with 0 <= f < 2^e, for a fraction that is not tiny.
WholeOf(v) == IF v.m * SgnF64(v) < 0 THEN Abs(v.w) - 1 ELSE Abs(v.w)

FracOf(v) == IF v.m * SgnF64(v) < 0 THEN Pow2(v.e) - Abs(v.m) ELSE Abs(v.m)

\* The fraction in units of 10^-4, rounded to the nearest, a tie to the even.
TenThousandths(v) ==
    LET scaled == FracOf(v) * 10000
        q      == scaled \div Pow2(v.e)
        r      == scaled % Pow2(v.e)
    IN  IF 2 * r > Pow2(v.e) \/ (2 * r = Pow2(v.e) /\ q % 2 = 1) THEN q + 1 ELSE q

Digits4(q) == <<q \div 1000, (q \div 100) % 10, (q \div 10) % 10, q % 10>>

\* "{v:.4}": four digits after the point, a carry going into the integer.
\* A tiny fraction rounds to the integer next to it.
Fmt4(v) ==
    IF TinyFraction(v) THEN Text(SgnF64(v) < 0, Abs(v.w), <<0, 0, 0, 0>>)
    ELSE IF TenThousandths(v) = 10000
         THEN Text(SgnF64(v) < 0, WholeOf(v) + 1, <<0, 0, 0, 0>>)
         ELSE Text(SgnF64(v) < 0, WholeOf(v), Digits4(TenThousandths(v)))

\* The number g_val writes after the letter.
g_val_text(v) == IF WithinEpsilon(v) THEN FmtRounded(v) ELSE Fmt4(v)

-----------------------------------------------------------------------------
(* Binary floating point for cut_tooth (gear_gen.rs 92-108).  A float is     *)
(* m * 2^e for a natural m of at most MantBits bits; a sum or a difference   *)
(* is the exact result rounded to the nearest float, a tie to the even       *)
(* mantissa, as IEEE 754 does for f64.  An f64 has 53 bits; the model keeps  *)
(* the rounding and shortens the mantissa.                                   *)

MantBits == 4

Float(m, e) == [m |-> m, e |-> e]

Zero == Float(0, 0)

\* m * 2^e with the mantissa odd: one form for one value.
RECURSIVE Canon(_, _)
Canon(m, e) ==
    IF m = 0 THEN Zero
    ELSE IF m % 2 = 0 THEN Canon(m \div 2, e + 1)
    ELSE Float(m, e)

RECURSIVE BitLen(_)
BitLen(m) == IF m <= 0 THEN 0 ELSE 1 + BitLen(m \div 2)

\* The float nearest to m * 2^e, a tie going to the even mantissa.
RoundFloat(m, e) ==
    IF BitLen(m) <= MantBits THEN Canon(m, e)
    ELSE LET s == BitLen(m) - MantBits
             q == m \div Pow2(s)
             r == m % Pow2(s)
             h == Pow2(s - 1)
         IN  IF r > h \/ (r = h /\ q % 2 = 1) THEN Canon(q + 1, e + s) ELSE Canon(q, e + s)

\* The mantissas of u and v over the smaller of their exponents.
MinExp(u, v) == IF u.e < v.e THEN u.e ELSE v.e

Over(u, e) == u.m * Pow2(u.e - e)

\* u + v, u - v (for u >= v), u < v, u > v, u / 2.0 and 2.0 * u in f64.
FAdd(u, v) == RoundFloat(Over(u, MinExp(u, v)) + Over(v, MinExp(u, v)), MinExp(u, v))

FSub(u, v) == RoundFloat(Over(u, MinExp(u, v)) - Over(v, MinExp(u, v)), MinExp(u, v))

FLess(u, v) == Over(u, MinExp(u, v)) < Over(v, MinExp(u, v))

FGreater(u, v) == FLess(v, u)

FHalf(u) == IF u.m = 0 THEN Zero ELSE Float(u.m, u.e - 1)

FTwice(u) == IF u.m = 0 THEN Zero ELSE Float(u.m, u.e + 1)

\* The result of a call that writes to the sink: Ok(()) or a panic, and the
\* sink as the call leaves it.
Ok(f) == [ok |-> TRUE, file |-> f]

Panic(f) == [ok |-> FALSE, file |-> f]

\* An as_gvals that writes the feed before the axes.
as_gvals_feed_first(f, p) ==
    IF ~IsSome(p.x) /\ ~IsSome(p.y) /\ ~IsSome(p.z) /\ ~IsSome(p.a)
    THEN Panic(f)
    ELSE Ok(g_val(g_val(g_val(g_val(g_val(f, "F", p.feed), "X", p.x), "Y", p.y), "Z", p.z),
                  "A", p.a))

\* PosAndFeed::as_gvals: panics on a move without any axis, else X Y Z A F.
as_gvals(f, p) ==
    IF ~IsSome(p.x) /\ ~IsSome(p.y) /\ ~IsSome(p.z) /\ ~IsSome(p.a)
    THEN Panic(f)
    ELSE Ok(g_val(g_val(g_val(g_val(g_val(f, "X", p.x), "Y", p.y), "Z", p.z), "A", p.a),
                  "F", p.feed))

\* g_move_linear: the command word, the values, the newline.
g_move_linear(f, g, p) ==
    LET r == as_gvals(Append(f, Tok(g, None)), p)
    IN  IF r.ok THEN Ok(Append(r.file, NL)) ELSE r

\* The assertion of g0 on a Z that is present.
G0ZAccepted(vz) == SgnVal(vz) > 0

\* A g0 without the assertion of line 270.
g0_any_feed(f, p) ==
    IF IsSome(p.z) /\ ~G0ZAccepted(p.z) THEN Panic(f)
    ELSE g_move_linear(f, "G0", p)

\* A g1 without the assertion of line 278.
g1_any_feed(f, p) == g_move_linear(f, "G1", p)

g0(f, p) ==
    IF IsSome(p.feed) THEN Panic(f)
    ELSE IF IsSome(p.z) /\ ~G0ZAccepted(p.z) THEN Panic(f)
    ELSE g_move_linear(f, "G0", p)

g1(f, p) ==
    IF ~IsSome(p.feed) THEN Panic(f)
    ELSE g_move_linear(f, "G1", p)

-----------------------------------------------------------------------------
(* Geometry (geometry/mod.rs 5-137).                                         *)

Point2(vx, vy) == [x |-> vx, y |-> vy]

Segment(s, e) == [start |-> s, end |-> e]

\* The three variants of TrimResult; the None variant carries no segment.
NoSeg == Segment(Point2(None, None), Point2(None, None))

Trimmed(l) == [kind |-> "Trimmed", seg |-> l]

Unchanged(l) == [kind |-> "Unchanged", seg |-> l]

TrimNone == [kind |-> "None", seg |-> NoSeg]

is_none(r) == r.kind = "None"

is_trimmed(r) == r.kind = "Trimmed"

is_unchanged(r) == r.kind = "Unchanged"

\* LineSegment::new panics when an assertion fails or an unwrap meets None.
\* The second assertion reads start.z and, once more, end.feed.
LineSegmentNewOk(s, e) ==
    /\ ~IsSome(s.feed) /\ ~IsSome(e.feed)
    /\ ~IsSome(s.z) /\ ~IsSome(e.feed)
    /\ IsSome(s.x) /\ IsSome(s.y) /\ IsSome(e.x) /\ IsSome(e.y)

LineSegmentNew(s, e) == Segment(Point2(s.x, s.y), Point2(e.x, e.y))

\* Circle::new panics when the descriptor carries a feed or lacks x, y or r.
CircleNewOk(c) == ~IsSome(c.feed) /\ IsSome(c.x) /\ IsSome(c.y) /\ IsSome(c.r)

CircleNew(c) == [center |-> Point2(c.x, c.y), radius |-> c.r]

\* A clamp without the .min(1.0).
ClampBelowOnly(t) == IF SgnVal(t) < 0 THEN Num(0) ELSE Norm(t.p, t.q, t.d, t.n)

\* t.max(0.0).min(1.0)
Clamp(t) ==
    IF SgnVal(t) < 0 THEN Num(0)
    ELSE IF SgnMinus(t, 1) > 0 THEN Num(1)
    ELSE Norm(t.p, t.q, t.d, t.n)

\* The parameters of trim's quadratic for a segment and a circle whose
\* coordinates are integers: a = |dir|^2, b = 2 to_start.dir,
\* c = |to_start|^2 - r^2, and the discriminant.
Quad(line, c) ==
    LET tsx == line.start.x.p - c.center.x.p
        tsy == line.start.y.p - c.center.y.p
        dx  == line.end.x.p - line.start.x.p
        dy  == line.end.y.p - line.start.y.p
        qa  == dx * dx + dy * dy
        qb  == 2 * (tsx * dx + tsy * dy)
        qc  == tsx * tsx + tsy * tsy - c.radius.p * c.radius.p
    IN  [dx |-> dx, dy |-> dy, a |-> qa, b |-> qb, c |-> qc,
         disc |-> qb * qb - 4 * qa * qc]

\* The two roots t1 <= t2 of the quadratic, defined when a > 0 and disc > 0.
Root1(k) == [p |-> -k.b, q |-> -1, d |-> k.disc, n |-> 2 * k.a]

\* A second root computed over a instead of 2a.
Root2OverA(k) == [p |-> -k.b, q |-> 1, d |-> k.disc, n |-> k.a]

Root2(k) == [p |-> -k.b, q |-> 1, d |-> k.disc, n |-> 2 * k.a]

\* A trim without the test of line 119.
RootsMissNever(t1, t2) == FALSE

\* Both roots beyond the end of the segment, or both before its start.
RootsMiss(t1, t2) ==
    \/ SgnMinus(t1, 1) > 0 /\ SgnMinus(t2, 1) > 0
    \/ SgnVal(t1) < 0 /\ SgnVal(t2) < 0

\* The clamped parameter interval of the part of the segment trim keeps.
TMin(k) == Clamp(Root1(k))

TMax(k) == Clamp(Root2(k))

\* A zero-length test that keeps a point only strictly inside the circle.
PointStrictlyInside(k) == k.c < 0

\* The test of line 94 on a zero-length segment: the point is inside or on
\* the circle.
PointInside(k) == k.c <= 0

\* A discriminant test that lets the tangent line through.
NegativeDiscriminant(k) == k.disc < 0

\* The test of line 111: the line misses the circle or is tangent to it.
NoIntersection(k) == k.disc <= 0

trim(line, c) ==
    LET k == Quad(line, c)
    IN  IF k.a = 0
        THEN IF PointInside(k) THEN Unchanged(line) ELSE TrimNone
        ELSE IF NoIntersection(k) THEN TrimNone
        ELSE IF RootsMiss(Root1(k), Root2(k)) THEN TrimNone
        ELSE IF SgnVal(TMin(k)) = 0 /\ SgnMinus(TMax(k), 1) = 0
             THEN Unchanged(line)
             ELSE Trimmed(Segment(
                    Point2(Along(line.start.x.p, TMin(k), k.dx),
                           Along(line.start.y.p, TMin(k), k.dy)),
                    Point2(Along(line.start.x.p, TMax(k), k.dx),
                           Along(line.start.y.p, TMax(k), k.dy))))

-----------------------------------------------------------------------------
(* trimmed_g1_path (lib.rs 284-325).                                         *)

\* A walk that begins with whatever `cutter_down` held before.
CutterNotReset == cutter_down

\* The value of `cutter_down` when the walk begins (line 292).
CutterAtStart == FALSE

\* A walker that raises the cutter after an eliminated segment only.
RaiseOnNoneOnly(seg) == is_none(seg)

\* raise_at_end (line 299).
RaiseAtEnd(seg) == is_none(seg) \/ is_trimmed(seg)

\* A walker that forgets the retract it has just written.
AfterRaiseStillDown(down) == down

\* `cutter_down` after the retract that closes an iteration (line 316).
AfterRaise(down) == FALSE

\* Lines 292-296 and the evaluation of the loop's range: the rapid to z_safe,
\* Circle::new, and path.len() - 1, which for an empty path overflows (a panic
\* in a debug build) or wraps, after which path[0] is out of bounds (a panic).
WalkBegin(f, zs, c, pth) ==
    LET r == g0(f, z(zs))
    IN  IF ~r.ok THEN r
        ELSE IF ~CircleNewOk(c) THEN Panic(r.file)
        ELSE IF Len(pth) = 0 THEN Panic(r.file)
        ELSE r

\* An iteration that lowers the cutter before the rapid to the start point.
WalkSegmentPlungeFirst(f, down, seg, zs, zc, fd) ==
    LET r1 == IF is_none(seg) \/ down THEN Ok(f)
              ELSE g1(f, zf(zc, fd))
        r2 == IF ~r1.ok \/ is_none(seg) \/ down THEN r1
              ELSE g0(r1.file, xy(seg.seg.start.x, seg.seg.start.y))
        r3 == IF ~r2.ok \/ is_none(seg) THEN r2
              ELSE g1(r2.file, xyf(seg.seg.end.x, seg.seg.end.y, fd))
        d3 == IF is_none(seg) THEN down ELSE TRUE
        r4 == IF ~r3.ok \/ ~(RaiseAtEnd(seg) /\ d3) THEN r3
              ELSE g1(r3.file, zf(zs, fd))
        d4 == IF RaiseAtEnd(seg) /\ d3 THEN AfterRaise(d3) ELSE d3
    IN  [ok |-> r4.ok, file |-> r4.file, down |-> d4]

\* The moves of one iteration for the trim result seg (lines 300-317): the
\* sink and the cutter as the iteration leaves them.
WalkSegment(f, down, seg, zs, zc, fd) ==
    LET r1 == IF is_none(seg) \/ down THEN Ok(f)
              ELSE g0(f, xy(seg.seg.start.x, seg.seg.start.y))
        r2 == IF ~r1.ok \/ is_none(seg) \/ down THEN r1
              ELSE g1(r1.file, zf(zc, fd))
        r3 == IF ~r2.ok \/ is_none(seg) THEN r2
              ELSE g1(r2.file, xyf(seg.seg.end.x, seg.seg.end.y, fd))
        d3 == IF is_none(seg) THEN down ELSE TRUE
        r4 == IF ~r3.ok \/ ~(RaiseAtEnd(seg) /\ d3) THEN r3
              ELSE g1(r3.file, zf(zs, fd))
        d4 == IF RaiseAtEnd(seg) /\ d3 THEN AfterRaise(d3) ELSE d3
    IN  [ok |-> r4.ok, file |-> r4.file, down |-> d4]

\* A walk without the closing retract.
WalkEndNoRetract(f, down, zs, fd) == Ok(f)

\* Lines 320-322: the closing retract.
WalkEnd(f, down, zs, fd) == IF down THEN g1(f, zf(zs, fd)) ELSE Ok(f)

\* A walk that takes each segment from its end to its start.
SegOfReversed(k) == trim(LineSegmentNew(path[k + 2], path[k + 1]), CircleNew(circle))

\* The trim result of iteration k (0-based) of the walk in progress.
SegOf(k) == trim(LineSegmentNew(path[k + 1], path[k + 2]), CircleNew(circle))

\* A walk that goes on after a failed call.
PcOfIgnoringFailure(r, next) == next

\* Where the walk goes after a call: on when it returned, else the panic
\* unwinds out of trimmed_g1_path (the assertions and the `?` of 294-321).
PcOf(r, next) == IF r.ok THEN next ELSE "panic"

\* Entry of trimmed_g1_path up to the first test of the loop.
Start ==
    /\ pc = "idle"
    /\ LET r == WalkBegin(file, z_safe, circle, path)
       IN  /\ file' = r.file
           /\ pc' = PcOf(r, "loop")
    /\ cutter_down' = CutterAtStart
    /\ i' = 0
    /\ UNCHANGED <<path, z_safe, z_cut, feed, circle, desc, first, direct, gear>>

\* One iteration of the loop.
Iterate ==
    /\ pc = "loop"
    /\ i < Len(path) - 1
    /\ IF ~LineSegmentNewOk(path[i + 1], path[i + 2])
       THEN /\ pc' = "panic"
            /\ UNCHANGED <<file, cutter_down, i>>
       ELSE LET r == WalkSegment(file, cutter_down, SegOf(i), z_safe, z_cut, feed)
            IN  /\ file' = r.file
                /\ cutter_down' = r.down
                /\ pc' = PcOf(r, "loop")
                /\ i' = i + 1
    /\ UNCHANGED <<path, z_safe, z_cut, feed, circle, desc, first, direct, gear>>

\* The loop is over: the closing retract and the return.
Finish ==
    /\ pc = "loop"
    /\ i >= Len(path) - 1
    /\ LET r == WalkEnd(file, cutter_down, z_safe, feed)
       IN  /\ file' = r.file
           /\ pc' = PcOf(r, "done")
    /\ UNCHANGED <<cutter_down, i, path, z_safe, z_cut, feed, circle, desc, first, direct, gear>>

-----------------------------------------------------------------------------
(* The inputs.                                                               *)

\* The longest path handed to a walk.
MaxPathLen == 3

\* The boundary: centre (0, 0), radius 2; once as a descriptor with a feed.
Circles == {xyr(Num(0), Num(0), Num(2)), xyrf(Num(0), Num(0), Num(2), Num(100))}

\* Waypoints inside, on and outside the boundary; among their segments are a
\* tangent (y = 2), a tangent that begins at its point of contact (x = 2),
\* chords along an axis, oblique chords, and segments of a crossing line that
\* end before the circle or begin after it.
Pts == {<<0, 0>>, <<1, 0>>, <<2, 0>>, <<3, 0>>, <<4, 0>>, <<-3, 0>>, <<-3, 2>>, <<2, 2>>}

\* A waypoint is built by xy; two carry what LineSegment::new asserts away.
WayPoints ==
    {xy(Num(pt[1]), Num(pt[2])) : pt \in Pts}
        \cup {xyz(Num(0), Num(0), Num(1)), xyf(Num(1), Num(0), Num(100))}

Paths == UNION {[1..k -> WayPoints] : k \in 0..MaxPathLen}

ZSafes == {Num(-1), Num(0), Num(1)}

ZCuts == {Num(-1)}

Feeds == {Num(100)}

NoDesc == [g |-> "", p |-> PosAndFeed(None, None, None, None, None)]

NoNum == F64(0, 0, 0)

NoText == Text(FALSE, 0, <<>>)

NoRun == [set |-> FALSE, other |-> FALSE, path |-> <<>>, z_safe |-> None,
          z_cut |-> None, feed |-> None, circle |-> xyr(None, None, None),
          file |-> <<>>]

Init ==
    /\ file = <<>>
    /\ pc = "idle"
    /\ cutter_down \in BOOLEAN
    /\ i = 0
    /\ path \in Paths
    /\ z_safe \in ZSafes
    /\ z_cut \in ZCuts
    /\ feed \in Feeds
    /\ circle \in Circles
    /\ desc = NoDesc
    /\ first = NoRun
    /\ num = NoNum
    /\ text = NoText
    /\ tline = NoSeg
    /\ result = TrimNone
    /\ total_depth = Zero
    /\ max_depth = Zero
    /\ depth = Zero
    /\ remaining = Zero
    /\ last_pass = Zero

Next == Start \/ Iterate \/ Finish

Spec == Init /\ [][Next]_vars

-----------------------------------------------------------------------------
(* A generator that walks one path after another, as generate_cube does     *)
(* (bin/guilloche_cube_gen.rs 74-89).  `file` holds what the call in         *)
(* progress wrote; the locals of the previous call are left as they were.    *)

RerunPts == {<<-3, 0>>, <<0, 0>>, <<1, 0>>}

RerunPaths ==
    UNION {[1..k -> {xy(Num(pt[1]), Num(pt[2])) : pt \in RerunPts}] : k \in 0..MaxPathLen}

RerunZSafes == {Num(1)}

RerunCircles == {xyr(Num(0), Num(0), Num(2))}

\* The walk in progress has the arguments of the recorded one.
SameArgs ==
    /\ path = first.path /\ z_safe = first.z_safe /\ z_cut = first.z_cut
    /\ feed = first.feed /\ circle = first.circle

InitRerun ==
    /\ file = <<>>
    /\ pc = "idle"
    /\ cutter_down \in BOOLEAN
    /\ i = 0
    /\ path \in RerunPaths
    /\ z_safe \in RerunZSafes
    /\ z_cut \in ZCuts
    /\ feed \in Feeds
    /\ circle \in RerunCircles
    /\ desc = NoDesc
    /\ first = NoRun
    /\ num = NoNum
    /\ text = NoText
    /\ tline = NoSeg
    /\ result = TrimNone
    /\ total_depth = Zero
    /\ max_depth = Zero
    /\ depth = Zero
    /\ remaining = Zero
    /\ last_pass = Zero

\* The walk returned and the generator calls trimmed_g1_path again.
Recall ==
    /\ pc = "done"
    /\ first' = IF first.set
                THEN [first EXCEPT !.other = first.other \/ ~SameArgs]
                ELSE [set |-> TRUE, other |-> FALSE, path |-> path,
                      z_safe |-> z_safe, z_cut |-> z_cut, feed |-> feed,
                      circle |-> circle, file |-> file]
    /\ file' = <<>>
    /\ pc' = "idle"
    /\ path' \in RerunPaths
    /\ z_safe' \in RerunZSafes
    /\ z_cut' \in ZCuts
    /\ feed' \in Feeds
    /\ circle' \in RerunCircles
    /\ UNCHANGED <<cutter_down, i, desc, direct, gear>>

NextRerun == Start \/ Iterate \/ Finish \/ Recall

SpecRerun == InitRerun /\ [][NextRerun]_vars

-----------------------------------------------------------------------------
(* Direct calls of g0 and g1 by a generator (lib.rs 269-280).                *)

Half == [p |-> 1, q |-> 0, d |-> 0, n |-> 2]

MinusHalf == [p |-> -1, q |-> 0, d |-> 0, n |-> 2]

MoveDescs ==
    {PosAndFeed(vx, vy, vz, va, vf) :
        vx \in {None, Num(1)}, vy \in {None, Num(2)},
        vz \in {None, Num(-1), MinusHalf, Num(0), Half, Num(1)},
        va \in {None, Num(3)}, vf \in {None, Num(100)}}

InitMove ==
    /\ file = <<>>
    /\ pc = "idle"
    /\ cutter_down = FALSE
    /\ i = 0
    /\ path = <<>>
    /\ z_safe = Num(1)
    /\ z_cut = Num(-1)
    /\ feed = Num(100)
    /\ circle = xyr(Num(0), Num(0), Num(2))
    /\ desc \in [g : {"G0", "G1"}, p : MoveDescs]
    /\ first = NoRun
    /\ num = NoNum
    /\ text = NoText
    /\ tline = NoSeg
    /\ result = TrimNone
    /\ total_depth = Zero
    /\ max_depth = Zero
    /\ depth = Zero
    /\ remaining = Zero
    /\ last_pass = Zero

CallG0 ==
    /\ pc = "idle"
    /\ desc.g = "G0"
    /\ LET r == g0(file, desc.p)
       IN  /\ file' = r.file
           /\ pc' = PcOf(r, "done")
    /\ UNCHANGED <<cutter_down, i, path, z_safe, z_cut, feed, circle, desc, first, direct, gear>>

CallG1 ==
    /\ pc = "idle"
    /\ desc.g = "G1"
    /\ LET r == g1(file, desc.p)
       IN  /\ file' = r.file
           /\ pc' = PcOf(r, "done")
    /\ UNCHANGED <<cutter_down, i, path, z_safe, z_cut, feed, circle, desc, first, direct, gear>>

NextMove == CallG0 \/ CallG1

SpecMove == InitMove /\ [][NextMove]_vars

-----------------------------------------------------------------------------
(* Reading the sink back: the lines written, one record per complete line.   *)

NoMove == [g |-> "", x |-> None, y |-> None, z |-> None, a |-> None, f |-> None]

\* The record of a line extended by one token of it.
WithTok(m, tk) ==
    CASE tk.t = "X" -> [m EXCEPT !.x = tk.v]
      [] tk.t = "Y" -> [m EXCEPT !.y = tk.v]
      [] tk.t = "Z" -> [m EXCEPT !.z = tk.v]
      [] tk.t = "A" -> [m EXCEPT !.a = tk.v]
      [] tk.t = "F" -> [m EXCEPT !.f = tk.v]
      [] OTHER -> [m EXCEPT !.g = tk.t]

RECURSIVE MovesFrom(_, _, _, _)
MovesFrom(f, k, cur, acc) ==
    IF k > Len(f) THEN acc
    ELSE IF f[k].t = "NL" THEN MovesFrom(f, k + 1, NoMove, Append(acc, cur))
    ELSE MovesFrom(f, k + 1, WithTok(cur, f[k]), acc)

\* The moves of the complete lines of the sink f, in the order written.
Moves(f) == MovesFrom(f, 1, NoMove, <<>>)

\* The kinds of line trimmed_g1_path writes.
IsRapidZ(m, zs) ==
    m = [NoMove EXCEPT !.g = "G0", !.z = zs]

IsRapidXY(m) ==
    /\ m.g = "G0" /\ IsSome(m.x) /\ IsSome(m.y)
    /\ ~IsSome(m.z) /\ ~IsSome(m.a) /\ ~IsSome(m.f)

IsFeedZ(m, zv, fd) ==
    m = [NoMove EXCEPT !.g = "G1", !.z = zv, !.f = fd]

IsCut(m, fd) ==
    /\ m.g = "G1" /\ IsSome(m.x) /\ IsSome(m.y)
    /\ ~IsSome(m.z) /\ ~IsSome(m.a) /\ m.f = fd

HasXY(m) == IsSome(m.x) /\ IsSome(m.y)

XYOf(m) == Point2(m.x, m.y)

LastOf(s) == s[Len(s)]

\* The sign of |pt - centre|^2 - radius^2 for a point whose coordinates lie in
\* one quadratic field and a circle with integer centre and radius.
SgnDist(pt, c) ==
    LET ax == pt.x.p - c.center.x.p * pt.x.n
        ay == pt.y.p - c.center.y.p * pt.y.n
        nx == pt.x.n * pt.x.n
        ny == pt.y.n * pt.y.n
        dd == IF pt.x.q # 0 THEN pt.x.d ELSE pt.y.d
        u  == ny * (ax * ax + pt.x.q * pt.x.q * dd)
                + nx * (ay * ay + pt.y.q * pt.y.q * dd)
                - c.radius.p * c.radius.p * nx * ny
        v  == 2 * (ny * ax * pt.x.q + nx * ay * pt.y.q)
    IN  Sgn(u, v, dd)

\* The coordinates of pt can be compared with the circle: both present, and
\* irrational parts, if any, over the same radicand.
SameField(pt) ==
    /\ IsSome(pt.x) /\ IsSome(pt.y)
    /\ (pt.x.q # 0 /\ pt.y.q # 0) => pt.x.d = pt.y.d

InCircle(pt, c) == SameField(pt) /\ SgnDist(pt, c) <= 0

-----------------------------------------------------------------------------
(* Properties of the walk.                                                   *)

\* A step of Iterate that completed its iteration.
IterStep == pc = "loop" /\ pc' = "loop" /\ i' = i + 1

\* The number of segments of the path.
SegCount == Len(path) - 1

\* Waypoint k (1-based) lies on or inside the boundary.
WayIn(k) == InCircle(Point2(path[k].x, path[k].y), CircleNew(circle))

\* Waypoint k lies on the boundary.
WayOn(k) == SgnDist(Point2(path[k].x, path[k].y), CircleNew(circle)) = 0

\* The segments at which a maximal contiguous inside part of the path begins:
\* the segment has a part in the circle, and that part is not joined, through
\* the shared waypoint, to a part of the segment before it.
RunStarts ==
    {j \in 0..(SegCount - 1) :
        /\ ~is_none(SegOf(j))
        /\ (j = 0 \/ is_none(SegOf(j - 1)) \/ ~WayIn(j + 1))}

Runs == Cardinality(RunStarts)

\* The clipped segments whose inside part is continued by the next segment.
EntryClips ==
    {j \in 0..(SegCount - 2) :
        is_trimmed(SegOf(j)) /\ ~is_none(SegOf(j + 1)) /\ WayIn(j + 2)}

\* The retracts of the sink f that are followed by a rapid and a new plunge.
Replunges(f) ==
    LET m == Moves(f)
    IN  Cardinality({k \in 1..(Len(m) - 2) :
            /\ IsFeedZ(m[k], z_safe, feed)
            /\ IsRapidXY(m[k + 1])
            /\ IsFeedZ(m[k + 2], z_cut, feed)})

\* C1 as stated: after a segment that is Unchanged or Clipped the cutter is
\* still engaged, the segment's cut being the last move written.
C1_OnlyEliminatedRetracts ==
    [][(IterStep /\ ~is_none(SegOf(i)))
        => (cutter_down' /\ IsCut(LastOf(Moves(file')), feed))]_vars

\* C1, amended: after an Unchanged segment the cutter is still engaged and the
\* segment's cut is the last move written; after a Clipped segment the cut is
\* followed by a feed retract to z_safe and the cutter is retracted; after an
\* Eliminated segment the cutter is retracted.
C1_RetractAfterEliminatedOrClipped ==
    [][IterStep =>
        /\ is_unchanged(SegOf(i)) =>
              (cutter_down' /\ IsCut(LastOf(Moves(file')), feed))
        /\ is_trimmed(SegOf(i)) =>
              /\ ~cutter_down'
              /\ IsFeedZ(LastOf(Moves(file')), z_safe, feed)
              /\ IsCut(Moves(file')[Len(Moves(file')) - 1], feed)
        /\ is_none(SegOf(i)) => ~cutter_down']_vars

\* A clipped segment was followed by an unchanged one, after which the cutter
\* is engaged.
C1_Witness ==
    /\ pc = "loop" /\ i = 2 /\ cutter_down
    /\ is_trimmed(SegOf(0)) /\ is_unchanged(SegOf(1))

\* C2 as stated: on a completed walk over waypoints none of which lies on the
\* boundary, the retract-then-replunge transitions number the maximal inside
\* runs minus one.
C2_ReplungesAreRunsMinusOne ==
    (pc = "done" /\ Runs >= 1 /\ \A k \in 1..Len(path) : ~WayOn(k))
        => Replunges(file) = Runs - 1

\* C2, amended: on a completed walk the retract-then-replunge transitions
\* number the maximal inside runs minus one, plus one for every Clipped segment
\* whose inside part is continued by the next segment; without an inside run
\* there is none.
C2_ReplungesAreRunsAndEntryClips ==
    pc = "done" =>
        Replunges(file) = IF Runs = 0 THEN 0 ELSE Runs - 1 + Cardinality(EntryClips)

\* A completed walk with an inside run that a clipped segment begins and the
\* next segment continues.
C2_Witness ==
    /\ pc = "done" /\ Runs >= 1 /\ EntryClips # {}
    /\ Replunges(file) >= 1

\* C3: a cut made while the cutter was engaged from the previous segment
\* starts where the previous cut ended.
C3_NoCutAcrossGap ==
    [][(IterStep /\ cutter_down /\ ~is_none(SegOf(i)))
        => /\ IsCut(LastOf(Moves(file)), feed)
           /\ SegOf(i).seg.start = XYOf(LastOf(Moves(file)))
           /\ IsCut(Moves(file')[Len(Moves(file)) + 1], feed)]_vars

\* A segment was cut with the cutter left engaged by the segment before it.
C3_Witness ==
    /\ pc = "loop" /\ i >= 2
    /\ is_unchanged(SegOf(i - 2)) /\ ~is_none(SegOf(i - 1))
    /\ Len(Moves(file)) >= 5

\* C4: every X Y target in the sink lies on or inside the boundary circle.
C4_TargetsInsideCircle ==
    LET m == Moves(file)
        c == CircleNew(circle)
    IN  \A k \in 1..Len(m) : HasXY(m[k]) => InCircle(XYOf(m[k]), c)

\* A rapid and a cut were written whose targets are intersection points with
\* irrational coordinates.
C4_Witness ==
    LET m == Moves(file)
    IN  /\ \E k \in 1..Len(m) : IsRapidXY(m[k]) /\ m[k].x.q # 0
        /\ \E k \in 1..Len(m) : IsCut(m[k], feed) /\ m[k].y.q # 0

\* C5 as stated: with fewer than two waypoints (and a valid z_safe and circle)
\* the walk writes nothing and does not fail.
C5_ShortPathIsNoOp ==
    (Len(path) < 2 /\ SgnVal(z_safe) > 0 /\ CircleNewOk(circle))
        => (file = <<>> /\ pc # "panic")

\* C6: the first line a walk writes is the rapid of Z to z_safe, and the loop
\* is entered with the cutter retracted and nothing else written.
C6_StartsRetracted ==
    LET m == Moves(file)
    IN  /\ file # <<>> => (Len(m) >= 1 /\ IsRapidZ(m[1], z_safe))
        /\ (pc = "loop" /\ i = 0) => (~cutter_down /\ Len(m) = 1)

\* The first segment was cut: the rapid to z_safe, then the rapid to the
\* segment's start, the plunge and the cut.
C6_Witness ==
    /\ pc = "loop" /\ i = 1 /\ cutter_down
    /\ Len(Moves(file)) = 4
    /\ IsRapidZ(Moves(file)[1], z_safe)

\* The target of the last line of m that carries a Z.
LastZ(m) == m[CHOOSE k \in 1..Len(m) :
                IsSome(m[k].z) /\ \A j \in (k + 1)..Len(m) : ~IsSome(m[j].z)].z

\* C7: the step that completes a walk writes exactly one feed move to z_safe
\* when the cutter is engaged and nothing otherwise, and the last Z written by
\* the completed walk is z_safe.
C7_EndsRetracted ==
    [][(pc = "loop" /\ pc' = "done") =>
        LET m  == Moves(file)
            m2 == Moves(file')
        IN  /\ IF cutter_down
               THEN /\ Len(m2) = Len(m) + 1
                    /\ SubSeq(m2, 1, Len(m)) = m
                    /\ IsFeedZ(LastOf(m2), z_safe, feed)
                    /\ IsCut(LastOf(m), feed)
               ELSE file' = file
            /\ LastZ(m2) = z_safe
            /\ IsSome(LastOf(m2).z)]_vars

\* A walk completed whose last segment left the cutter engaged.
C7_Witness ==
    /\ pc = "done" /\ cutter_down
    /\ IsFeedZ(LastOf(Moves(file)), z_safe, feed)

\* The call the walk is about to make fails: the first rapid, Circle::new or
\* the range of the loop at the start, LineSegment::new in the loop.
FailsNow ==
    \/ pc = "idle" /\ ~WalkBegin(file, z_safe, circle, path).ok
    \/ pc = "loop" /\ i < Len(path) - 1
          /\ ~LineSegmentNewOk(path[i + 1], path[i + 2])

\* No call of the whole walk fails.
NeverFails ==
    /\ WalkBegin(<<>>, z_safe, circle, path).ok
    /\ \A k \in 1..(Len(path) - 1) : LineSegmentNewOk(path[k], path[k + 1])

\* C8: a failing call ends the walk at once, an ended walk writes nothing
\* more, and a walk completes only when no call of it failed.
C8_AbortsOnFirstFailure ==
    [][/\ FailsNow => pc' = "panic"
       /\ (FailsNow /\ pc = "loop") => file' = file
       /\ pc = "panic" => file' = file
       /\ pc' = "done" => NeverFails]_vars

\* A walk that failed at its second segment, after the moves of the first.
C8_Witness ==
    /\ pc = "panic" /\ i = 1
    /\ Len(Moves(file)) >= 4

\* C9: a walk on the arguments of an earlier walk of the same run writes what
\* that walk wrote, and every walk enters its loop with the cutter retracted,
\* whatever the walk before it left.
C9_SameInputSameOutput ==
    /\ (pc = "done" /\ first.set /\ SameArgs) => file = first.file
    /\ (pc = "loop" /\ i = 0) => ~cutter_down

\* A walk was repeated after a walk on other arguments, and it cut something
\* and ended with the cutter engaged before the closing retract.
C9_Witness ==
    /\ pc = "done" /\ first.set /\ first.other /\ SameArgs
    /\ cutter_down
    /\ Len(Moves(file)) >= 5

\* C10 as stated: a rapid with a Z and no feed is accepted exactly when the Z
\* is not negative.
C10_RapidZAcceptedIffNonNegative ==
    (pc # "idle" /\ desc.g = "G0" /\ IsSome(desc.p.z) /\ ~IsSome(desc.p.feed))
        => ((pc = "done") <=> (SgnVal(desc.p.z) >= 0))

-----------------------------------------------------------------------------
(* A direct call of g_val on one value: SpecRender.                          *)

MaxFracBits == 4

\* Values with up to MaxFracBits binary places: integers, halves, quarters...
PlainNums ==
    {F64(w, m, e) : w \in {-2, -1, 0, 1, 12}, m \in -Pow2(MaxFracBits - 1)..Pow2(MaxFracBits - 1),
                    e \in 0..MaxFracBits}

\* Values next to an integer: 2^-15 and a few multiples of 2^-52 .. 2^-54 away.
NearNums == {F64(w, m, e) : w \in {-1, 0, 1}, m \in -3..3, e \in {15, 52, 53, 54}}

\* w + m / 2^e is an f64: the fraction is at most 1/2, and next to 1 or -1 it
\* is a multiple of the spacing of the f64s there (2^-52 beyond, 2^-53 before).
IsF64(v) ==
    /\ v.e < EpsilonBits => 2 * Abs(v.m) <= Pow2(v.e)
    /\ (v.e >= EpsilonBits /\ v.w # 0 /\ v.m * v.w > 0) => v.m % Pow2(v.e - EpsilonBits) = 0
    /\ (v.e > EpsilonBits /\ v.w # 0 /\ v.m * v.w < 0) => v.m % Pow2(v.e - EpsilonBits - 1) = 0

RenderNums == {v \in PlainNums \cup NearNums : IsF64(v)}

InitRender ==
    /\ file = <<>>
    /\ pc = "idle"
    /\ cutter_down = FALSE
    /\ i = 0
    /\ path = <<>>
    /\ z_safe = Num(1)
    /\ z_cut = Num(-1)
    /\ feed = Num(100)
    /\ circle = xyr(Num(0), Num(0), Num(2))
    /\ desc = NoDesc
    /\ first = NoRun
    /\ num \in RenderNums
    /\ text = NoText
    /\ tline = NoSeg
    /\ result = TrimNone
    /\ total_depth = Zero
    /\ max_depth = Zero
    /\ depth = Zero
    /\ remaining = Zero
    /\ last_pass = Zero

CallGVal ==
    /\ pc = "idle"
    /\ text' = g_val_text(num)
    /\ pc' = "done"
    /\ UNCHANGED <<file, cutter_down, i, path, z_safe, z_cut, feed, circle, desc, first,
                   num, tline, result, gear>>

NextRender == CallGVal

SpecRender == InitRender /\ [][NextRender]_vars

-----------------------------------------------------------------------------
(* A direct call of trim on one segment and one circle: SpecTrim.            *)

MaxCoord == 2

TrimPoints == {Point2(Num(vx), Num(vy)) : vx \in -MaxCoord..MaxCoord, vy \in -MaxCoord..MaxCoord}

TrimLines == {Segment(s, e) : s \in TrimPoints, e \in TrimPoints}

TrimCircles == {xyr(Num(cx), Num(0), Num(r)) : cx \in {0, 1}, r \in {0, 1, 2}}

InitTrim ==
    /\ file = <<>>
    /\ pc = "idle"
    /\ cutter_down = FALSE
    /\ i = 0
    /\ path = <<>>
    /\ z_safe = Num(1)
    /\ z_cut = Num(-1)
    /\ feed = Num(100)
    /\ circle \in TrimCircles
    /\ desc = NoDesc
    /\ first = NoRun
    /\ num = NoNum
    /\ text = NoText
    /\ tline \in TrimLines
    /\ result = TrimNone
    /\ total_depth = Zero
    /\ max_depth = Zero
    /\ depth = Zero
    /\ remaining = Zero
    /\ last_pass = Zero

CallTrim ==
    /\ pc = "idle"
    /\ result' = trim(tline, CircleNew(circle))
    /\ pc' = "done"
    /\ UNCHANGED <<file, cutter_down, i, path, z_safe, z_cut, feed, circle, desc, first,
                   num, text, tline, gear>>

NextTrim == CallTrim

SpecTrim == InitTrim /\ [][NextTrim]_vars

-----------------------------------------------------------------------------
(* cut_tooth (gear_gen.rs 86-113, main.rs 141-171): SpecGear.  A pass is     *)
(* kept as the depth handed to pass_at_depth.                                *)

\* Depths with every mantissa of MantBits bits over a few exponents.
GearFloats == {Canon(m, e) : m \in 1..(Pow2(MantBits) - 1), e \in 0..2}

\* total_depth > 0 and max_depth > 0, the whole depth being fewer than
\* 2^(MantBits - 1) passes of max_depth, so that depth + max_depth is never
\* rounded back to depth.
GearInputs ==
    {in \in GearFloats \X GearFloats :
        FLess(in[1], Float(in[2].m, in[2].e + MantBits - 1))}

InitGear ==
    /\ file = <<>>
    /\ pc = "while"
    /\ cutter_down = FALSE
    /\ i = 0
    /\ path = <<>>
    /\ z_safe = Num(1)
    /\ z_cut = Num(-1)
    /\ feed = Num(100)
    /\ circle = xyr(Num(0), Num(0), Num(2))
    /\ desc = NoDesc
    /\ first = NoRun
    /\ num = NoNum
    /\ text = NoText
    /\ tline = NoSeg
    /\ result = TrimNone
    /\ total_depth \in GearFloats
    /\ max_depth \in {md \in GearFloats : <<total_depth, md>> \in GearInputs}
    /\ depth = Zero
    /\ remaining = Zero
    /\ last_pass = Zero

\* Lines 97-102: more than 2 * max_depth remains; one pass max_depth deeper.
FullPass ==
    /\ pc = "while"
    /\ FLess(depth, total_depth)
    /\ \E r \in {FSub(total_depth, depth)} :
          /\ FGreater(r, FTwice(max_depth))
          /\ remaining' = r
          /\ \E d \in {FAdd(depth, max_depth)} :
                /\ depth' = d
                /\ last_pass' = d
    /\ UNCHANGED <<file, pc, cutter_down, i, path, z_safe, z_cut, feed, circle, desc, first,
                   direct, total_depth, max_depth>>

\* Lines 97-106: the first of the two finishing passes.
HalfPass ==
    /\ pc = "while"
    /\ FLess(depth, total_depth)
    /\ \E r \in {FSub(total_depth, depth)} :
          /\ ~FGreater(r, FTwice(max_depth))
          /\ remaining' = r
          /\ \E d \in {FAdd(depth, FHalf(r))} :
                /\ depth' = d
                /\ last_pass' = d
    /\ pc' = "second"
    /\ UNCHANGED <<file, cutter_down, i, path, z_safe, z_cut, feed, circle, desc, first,
                   direct, total_depth, max_depth>>

\* Lines 107-108: the second finishing pass, at total_depth.
FinalPass ==
    /\ pc = "second"
    /\ depth' = FAdd(depth, FHalf(remaining))
    /\ last_pass' = total_depth
    /\ pc' = "while"
    /\ UNCHANGED <<file, cutter_down, i, path, z_safe, z_cut, feed, circle, desc, first,
                   direct, total_depth, max_depth, remaining>>

\* Line 97: the loop ends.
LoopExit ==
    /\ pc = "while"
    /\ ~FLess(depth, total_depth)
    /\ pc' = "done"
    /\ UNCHANGED <<file, cutter_down, i, path, z_safe, z_cut, feed, circle, desc, first,
                   direct, gear>>

NextGear == FullPass \/ HalfPass \/ FinalPass \/ LoopExit

SpecGear == InitGear /\ [][NextGear]_vars

\* cut_tooth runs as long as it can take a step.
SpecGearFair == SpecGear /\ WF_vars(NextGear)

-----------------------------------------------------------------------------
(* Direct calls of g0 and g1 (SpecMove).                                     *)

\* The descriptor has no axis value at all (the test of as_gvals, line 235).
NoAxis(p) == ~IsSome(p.x) /\ ~IsSome(p.y) /\ ~IsSome(p.z) /\ ~IsSome(p.a)

\* The direct call has returned or panicked.
Called(g) == pc # "idle" /\ desc.g = g

\* C11: g0 on a descriptor with a feed rate panics and leaves the sink as it
\* was; on a descriptor without a feed rate g0 panics only for another reason
\* (a Z it does not accept, or no axis at all).
C11_RapidWithFeedRejected ==
    Called("G0") =>
        /\ IsSome(desc.p.feed) => (pc = "panic" /\ file = <<>>)
        /\ (~IsSome(desc.p.feed) /\ pc = "panic")
               => (NoAxis(desc.p) \/ (IsSome(desc.p.z) /\ SgnVal(desc.p.z) <= 0))

C11_Witness ==
    /\ Called("G0") /\ pc = "panic" /\ file = <<>>
    /\ IsSome(desc.p.feed) /\ IsSome(desc.p.x) /\ ~IsSome(desc.p.z)

\* C12: g1 on a descriptor without a feed rate panics and leaves the sink as
\* it was; on a descriptor with a feed rate g1 panics only when the descriptor
\* has no axis at all.
C12_FeedMoveWithoutFeedRejected ==
    Called("G1") =>
        /\ ~IsSome(desc.p.feed) => (pc = "panic" /\ file = <<>>)
        /\ (IsSome(desc.p.feed) /\ pc = "panic") => NoAxis(desc.p)

C12_Witness ==
    /\ Called("G1") /\ pc = "panic" /\ file = <<>>
    /\ ~IsSome(desc.p.feed) /\ IsSome(desc.p.x) /\ IsSome(desc.p.z)

ExpectedLine(g, p) ==
    LET Present(tk) == IsSome(tk.v)
    IN  <<Tok(g, None)>>
        \o SelectSeq(<<Tok("X", p.x), Tok("Y", p.y), Tok("Z", p.z), Tok("A", p.a),
                       Tok("F", p.feed)>>, Present)
        \o <<NL>>

\* C14: a move that g0 or g1 accepts leaves exactly one line in the sink: the
\* command word, one token for each axis that is present, in the order X, Y,
\* Z, A whichever axes are present, then the F token if there is a feed rate,
\* then one newline.
C14_OneLineInAxisOrder ==
    (pc = "done") => (file = ExpectedLine(desc.g, desc.p))

C14_Witness ==
    /\ pc = "done" /\ desc.g = "G1"
    /\ IsSome(desc.p.x) /\ ~IsSome(desc.p.y) /\ IsSome(desc.p.z) /\ IsSome(desc.p.a)
    /\ Len(file) = 6

-----------------------------------------------------------------------------
(* The number format of g_val (SpecRender).                                  *)

\* The value is an integer.
IsIntegral(v) == v.m = 0

\* The value is closer to an integer than 2^-52.
NearIntegral(v) == v.m = 0 \/ (v.e > EpsilonBits /\ Abs(v.m) < Pow2(v.e - EpsilonBits))

\* The text is an integer and the point, with no digit after it.
IntegerForm(t, k) == t.int = k /\ t.point /\ t.frac = <<>>

\* The text has exactly four digits after the point.
FourDigitForm(t) ==
    t.point /\ Len(t.frac) = 4 /\ \A k \in 1..4 : t.frac[k] \in 0..9

\* C15 as stated: a value equal to its rounding is written as the integer and
\* the point; every value that is not an integer is written with exactly four
\* digits after the point.
C15_IntegralDotElseFourDigits ==
    (pc = "done") =>
        IF IsIntegral(num) THEN IntegerForm(text, Abs(num.w)) ELSE FourDigitForm(text)

\* C15, amended: a value closer than f64::EPSILON to an integer, equal to it
\* or not, is written as that integer and the point; every other value is
\* written with exactly four digits after the point.
C15_NearIntegralDotElseFourDigits ==
    (pc = "done") =>
        IF NearIntegral(num) THEN IntegerForm(text, Abs(num.w)) ELSE FourDigitForm(text)

C15_Witness ==
    /\ pc = "done" /\ ~IsIntegral(num) /\ NearIntegral(num)
    /\ num.w = 1 /\ num.m < 0 /\ IntegerForm(text, 1)

-----------------------------------------------------------------------------
(* The classification of trim (SpecTrim).  The geometry of the segment       *)
(* `tline` against the circle is stated here from the coordinates, without    *)
(* the roots of trim's quadratic.                                            *)

\* The start and the end of the segment relative to the centre, and its
\* direction.
FromCentre(pt) == [x |-> pt.x.p - circle.x.p, y |-> pt.y.p - circle.y.p]

DirOf(l) == [x |-> l.end.x.p - l.start.x.p, y |-> l.end.y.p - l.start.y.p]

Dot(u, v) == u.x * v.x + u.y * v.y

\* The squared length of the segment.
Len2 == Dot(DirOf(tline), DirOf(tline))

\* The squared distance of a point to the centre, less the squared radius:
\* negative inside the circle, zero on it, positive outside.
Outness(pt) == Dot(FromCentre(pt), FromCentre(pt)) - circle.r.p * circle.r.p

\* |dir| times the distance of the centre to the line of the segment.
Cross == FromCentre(tline.start).x * DirOf(tline).y - FromCentre(tline.start).y * DirOf(tline).x

\* The squared distance of the centre to the line, less the squared radius,
\* times |dir|^2.
LineOutness == Cross * Cross - circle.r.p * circle.r.p * Len2

\* The point of the line nearest to the centre lies strictly between the
\* ends of the segment.
FootWithin ==
    /\ 0 < -Dot(FromCentre(tline.start), DirOf(tline))
    /\ -Dot(FromCentre(tline.start), DirOf(tline)) < Len2

\* No point of the segment is strictly inside the circle.
NoPartInside ==
    /\ Outness(tline.start) >= 0
    /\ Outness(tline.end) >= 0
    /\ FootWithin => LineOutness >= 0

\* Every point of the segment is strictly outside the circle.
EntirelyOutside ==
    /\ Outness(tline.start) > 0
    /\ Outness(tline.end) > 0
    /\ FootWithin => LineOutness > 0

\* C16 as stated, for the segments of non-zero length: trim returns None for
\* a segment no point of which is strictly inside the circle, a segment that
\* only touches the circle included.
C16_NoInteriorPartEliminated ==
    (pc = "done" /\ Len2 > 0 /\ NoPartInside) => is_none(result)

\* C17: for a segment of non-zero length whose line is tangent to the circle
\* or misses it, trim returns None (and so no Trimmed segment of zero
\* length).
C17_TangentOrMissEliminated ==
    (pc = "done" /\ Len2 > 0 /\ LineOutness >= 0) => is_none(result)

C17_Witness ==
    /\ pc = "done" /\ Len2 > 0 /\ LineOutness = 0 /\ FootWithin
    /\ circle.r.p > 0 /\ is_none(result)

\* C18: for a segment of zero length trim returns Unchanged with that same
\* segment when its point is inside or on the circle, and None otherwise.
C18_ZeroLengthByItsPoint ==
    (pc = "done" /\ tline.start = tline.end) =>
        IF Outness(tline.start) <= 0 THEN result = Unchanged(tline) ELSE is_none(result)

C18_Witness ==
    /\ pc = "done" /\ tline.start = tline.end
    /\ Outness(tline.start) = 0 /\ circle.r.p > 0 /\ result = Unchanged(tline)

\* C19: trim returns None for every segment that lies entirely outside the
\* circle, whether its line misses the circle or crosses it beyond one end
\* of the segment.
C19_OutsideEliminated ==
    (pc = "done" /\ EntirelyOutside) => is_none(result)

C19_Witness ==
    /\ pc = "done" /\ EntirelyOutside /\ Len2 > 0
    /\ LineOutness < 0 /\ is_none(result)

\* C20: for a segment of non-zero length with both ends strictly inside the
\* circle trim returns Unchanged, with the segment it was given.
C20_InsideUnchanged ==
    (pc = "done" /\ Len2 > 0 /\ Outness(tline.start) < 0 /\ Outness(tline.end) < 0)
        => (is_unchanged(result) /\ result.seg = tline)

C20_Witness ==
    /\ pc = "done" /\ Len2 > 0 /\ Outness(tline.start) < 0 /\ Outness(tline.end) < 0
    /\ circle.x.p = 1 /\ is_unchanged(result) /\ result.seg = tline

-----------------------------------------------------------------------------
(* The segment trim returns (SpecTrim).                                      *)

\* The radicand shared by two values of one quadratic field.
RadicandOf(u, v) == IF u.q # 0 THEN u.d ELSE v.d

\* The sign of u - v for two values of one quadratic field.
SgnDiff(u, v) == Sgn(u.p * v.n - v.p * u.n, u.q * v.n - v.q * u.n, RadicandOf(u, v))

\* The parameter of the point pt along the segment l: (pt - start).dir / |dir|^2.
ParamOf(pt, l) ==
    LET dir == DirOf(l)
        ux  == pt.x.p - l.start.x.p * pt.x.n
        uy  == pt.y.p - l.start.y.p * pt.y.n
    IN  Norm(pt.y.n * dir.x * ux + pt.x.n * dir.y * uy,
             pt.y.n * dir.x * pt.x.q + pt.x.n * dir.y * pt.y.q,
             RadicandOf(pt.x, pt.y),
             pt.x.n * pt.y.n * Dot(dir, dir))

\* The point pt lies on the line of the segment l: (pt - start) x dir = 0.
OnLineOf(pt, l) ==
    LET dir == DirOf(l)
        ux  == pt.x.p - l.start.x.p * pt.x.n
        uy  == pt.y.p - l.start.y.p * pt.y.n
    IN  Sgn(pt.y.n * dir.y * ux - pt.x.n * dir.x * uy,
            pt.y.n * dir.y * pt.x.q - pt.x.n * dir.x * pt.y.q,
            RadicandOf(pt.x, pt.y)) = 0

\* The point pt is a point where the line of `tline` meets the circle.
IsIntersection(pt) ==
    SameField(pt) /\ OnLineOf(pt, tline) /\ SgnDist(pt, CircleNew(circle)) = 0

\* C21: for a segment with both ends outside the circle that crosses the
\* boundary twice between its ends, trim returns Trimmed; the start and the
\* end of the returned segment are the two points where the line meets the
\* circle, each at distance radius of the centre, in the order of the
\* direction of the segment.
C21_CrossingClippedAtIntersections ==
    (pc = "done" /\ Outness(tline.start) > 0 /\ Outness(tline.end) > 0
                 /\ FootWithin /\ LineOutness < 0)
        => /\ is_trimmed(result)
           /\ IsIntersection(result.seg.start)
           /\ IsIntersection(result.seg.end)
           /\ SgnVal(ParamOf(result.seg.start, tline)) > 0
           /\ SgnDiff(ParamOf(result.seg.start, tline), ParamOf(result.seg.end, tline)) < 0
           /\ SgnMinus(ParamOf(result.seg.end, tline), 1) < 0

C21_Witness ==
    /\ pc = "done" /\ Outness(tline.start) > 0 /\ Outness(tline.end) > 0
    /\ FootWithin /\ LineOutness < 0
    /\ is_trimmed(result) /\ result.seg.start.x.q # 0 /\ result.seg.end.y.q # 0

\* C22: for a segment with one end strictly inside the circle and the other
\* strictly outside, trim returns Trimmed; the end that is inside stays where
\* it was (a start as the start, an end as the end), and the other end is the
\* point where the segment meets the circle.
C22_OneEndInsideKept ==
    (pc = "done" /\ Outness(tline.start) * Outness(tline.end) < 0)
        => /\ is_trimmed(result)
           /\ IF Outness(tline.start) < 0
              THEN /\ result.seg.start = tline.start
                   /\ IsIntersection(result.seg.end)
                   /\ SgnVal(ParamOf(result.seg.end, tline)) > 0
                   /\ SgnMinus(ParamOf(result.seg.end, tline), 1) < 0
              ELSE /\ result.seg.end = tline.end
                   /\ IsIntersection(result.seg.start)
                   /\ SgnVal(ParamOf(result.seg.start, tline)) > 0
                   /\ SgnMinus(ParamOf(result.seg.start, tline), 1) < 0

C22_Witness ==
    /\ pc = "done" /\ Outness(tline.start) > 0 /\ Outness(tline.end) < 0
    /\ is_trimmed(result) /\ result.seg.end = tline.end
    /\ result.seg.start.x.q # 0

\* C26: the start and the end of every Trimmed result are on or inside the
\* circle and on the segment given, at parameters t_min and t_max with
\* 0 <= t_min <= t_max <= 1.
C26_ClippedWithinSegmentAndCircle ==
    (pc = "done" /\ is_trimmed(result))
        => /\ InCircle(result.seg.start, CircleNew(circle))
           /\ InCircle(result.seg.end, CircleNew(circle))
           /\ OnLineOf(result.seg.start, tline)
           /\ OnLineOf(result.seg.end, tline)
           /\ SgnVal(ParamOf(result.seg.start, tline)) >= 0
           /\ SgnDiff(ParamOf(result.seg.start, tline), ParamOf(result.seg.end, tline)) <= 0
           /\ SgnMinus(ParamOf(result.seg.end, tline), 1) <= 0

C26_Witness ==
    /\ pc = "done" /\ is_trimmed(result)
    /\ SgnVal(ParamOf(result.seg.start, tline)) > 0
    /\ SgnDiff(ParamOf(result.seg.start, tline), ParamOf(result.seg.end, tline)) < 0
    /\ SgnMinus(ParamOf(result.seg.end, tline), 1) = 0

-----------------------------------------------------------------------------
(* The moves of one iteration of the walk, and their order (Spec).           *)

\* The lines of a rapid and of a cut to the point pt.
RapidTo(pt) == [NoMove EXCEPT !.g = "G0", !.x = pt.x, !.y = pt.y]

CutTo(pt, fd) == [NoMove EXCEPT !.g = "G1", !.x = pt.x, !.y = pt.y, !.f = fd]

C24_EliminatedOnlyRetracts ==
    [][(IterStep /\ is_none(SegOf(i))) =>
        /\ ~cutter_down'
        /\ IF cutter_down
           THEN Moves(file') = Append(Moves(file), [NoMove EXCEPT !.g = "G1", !.z = z_safe, !.f = feed])
           ELSE file' = file]_vars

\* An Unchanged segment ended on the boundary with the cutter engaged, and the
\* next segment, tangent there, was eliminated: the cutter is retracted.
C24_Witness ==
    /\ pc = "loop" /\ i >= 2 /\ ~cutter_down
    /\ is_unchanged(SegOf(i - 2)) /\ is_none(SegOf(i - 1))
    /\ IsFeedZ(LastOf(Moves(file)), z_safe, feed)

\* A feed move with an X and a Y.
IsFeedXY(m) == m.g = "G1" /\ HasXY(m)

\* The X Y targets of the cuts of the moves m, in the order written.
CutTargets(m) ==
    LET c == SelectSeq(m, IsFeedXY)
    IN  [k \in 1..Len(c) |-> XYOf(c[k])]

\* The ends of the kept parts of the first n segments of the path that trim
\* does not eliminate, in the order of the path.
RECURSIVE KeptEnds(_)
KeptEnds(n) ==
    IF n = 0 THEN <<>>
    ELSE LET r == trim(LineSegmentNew(path[n], path[n + 1]), CircleNew(circle))
         IN  IF is_none(r) THEN KeptEnds(n - 1) ELSE Append(KeptEnds(n - 1), r.seg.end)

\* C25: the moves are written in the order of the path: every step of the walk
\* only appends to the moves already in the sink, and after i iterations the
\* X Y targets of the cuts in the sink are the ends of the kept parts of the
\* segments 0 .. i-1 that are not eliminated, in increasing segment index.
C25_MovesInPathOrder ==
    [][(pc' \in {"loop", "done"}) =>
        LET m  == Moves(file)
            m2 == Moves(file')
        IN  /\ Len(m2) >= Len(m)
            /\ SubSeq(m2, 1, Len(m)) = m
            /\ CutTargets(m2) = KeptEnds(i')]_vars

\* A completed walk over two segments that both were cut, to different ends.
C25_Witness ==
    /\ pc = "done" /\ Len(path) = 3
    /\ Len(CutTargets(Moves(file))) = 2
    /\ CutTargets(Moves(file))[1] # CutTargets(Moves(file))[2]
    /\ is_trimmed(SegOf(0))

\* The cutter is engaged after the first k of the moves m: a plunge is among
\* them with no retract after it.
DownAfter(m, k) ==
    \E j \in 1..k :
        /\ IsFeedZ(m[j], z_cut, feed)
        /\ \A l \in (j + 1)..k : ~IsFeedZ(m[l], z_safe, feed)

\* C27: in the moves of one walk a plunge is written only with the cutter
\* retracted and a retract only with the cutter engaged, so that they
\* alternate, a plunge first; a rapid to X Y is written only with the cutter
\* retracted and a cut only with the cutter engaged; between iterations
\* `cutter_down` is the state the moves written so far leave; and a completed
\* walk has as many feed retracts as plunges.
C27_PlungesAndRetractsAlternate ==
    (pc \in {"loop", "done"}) =>
        LET m == Moves(file)
            plunges  == {k \in 1..Len(m) : IsFeedZ(m[k], z_cut, feed)}
            retracts == {k \in 1..Len(m) : IsFeedZ(m[k], z_safe, feed)}
        IN  /\ \A k \in plunges : ~DownAfter(m, k - 1)
            /\ \A k \in retracts : DownAfter(m, k - 1)
            /\ \A k \in 1..Len(m) : IsRapidXY(m[k]) => ~DownAfter(m, k - 1)
            /\ \A k \in 1..Len(m) : IsCut(m[k], feed) => DownAfter(m, k - 1)
            /\ pc = "loop" => cutter_down = DownAfter(m, Len(m))
            /\ pc = "done" => Cardinality(plunges) = Cardinality(retracts)

\* A completed walk that plunged twice and retracted twice.
C27_Witness ==
    LET m == Moves(file)
    IN  /\ pc = "done"
        /\ Cardinality({k \in 1..Len(m) : IsFeedZ(m[k], z_cut, feed)}) = 2
        /\ Cardinality({k \in 1..Len(m) : IsFeedZ(m[k], z_safe, feed)}) = 2
        /\ is_unchanged(SegOf(1))

\* C28 as stated: a walk over two or more waypoints completes only when no
\* waypoint, the last included, carries a Z or a feed rate.
C28_NoWaypointZOrFeedIgnored ==
    (pc = "done" /\ Len(path) >= 2) =>
        \A k \in 1..Len(path) : ~IsSome(path[k].z) /\ ~IsSome(path[k].feed)

-----------------------------------------------------------------------------
(* The passes of cut_tooth (SpecGear).                                       *)

\* A step that calls pass_at_depth.
PassStep == FullPass \/ HalfPass \/ FinalPass

\* C29 as stated, its first part: every pass is strictly deeper than the pass
\* before it (the first deeper than 0).
C29_PassesStrictlyDeeper ==
    [][PassStep => FLess(last_pass, last_pass')]_vars

\* C30 as stated: the loop of passes terminates.
C30_PassLoopTerminates == <>(pc = "done")

====
